---------------------------- MODULE Spec2Model ----------------------------
(***************************************************************************)
(* Model of the search box controller (class App) and of the mock search   *)
(* server it talks to.  Strings are sequences of one-character strings, so *)
(* that trim, toLowerCase, includes and URL encoding are computed.         *)
(***************************************************************************)
EXTENDS Integers, Sequences, FiniteSets, TLC

VARIABLES
  searchTerm, results, selectedValue, selectedIndex,
  isLoading, hasError, hasSearched, showDropdown, showErrorToast,
  errorMessage, toastMessage, errorCount, requestCount, latency,
  debounce,       \* debounceTime: <<>> or <<pending emission>>
  lastDistinct,   \* distinctUntilChanged: <<>> or <<last value passed on>>
  pipes,          \* switchMap: the subscribed inner request pipelines
  blurTimeout,    \* "armed" while the close timer is pending, else "idle"
                  \* (clearing a handle that is undefined, fired or cleared
                  \* does nothing, so these are one value)
  toastTimers,    \* number of pending auto-dismiss timers
  focused,        \* whether the input element has the focus
  alive,          \* FALSE after ngOnDestroy
  subscribed,     \* whether searchSubscription is still subscribed
  resultSelected, \* events emitted on the output by the last handler
  lastOp          \* the handler that ran last

vars == <<searchTerm, results, selectedValue, selectedIndex,
          isLoading, hasError, hasSearched, showDropdown, showErrorToast,
          errorMessage, toastMessage, errorCount, requestCount, latency,
          debounce, lastDistinct, pipes, blurTimeout, toastTimers,
          focused, alive, subscribed, resultSelected, lastOp>>

-----------------------------------------------------------------------------
(* Bounds *)

\* Settled non-blank queries per session.
MaxRequests == 3

\* Requests issued in the behaviours of SpecToast.
MaxToastRequests == 4

-----------------------------------------------------------------------------
(* Strings *)

empty == <<>>
blank == <<" ">>
Ap == <<"A", "p">>
xx == <<"x">>
apple == <<"a", "p", "p", "l", "e">>
apricot == <<"a", "p", "r", "i", "c", "o", "t">>

\* Values the user types into the input.
Inputs == {empty, blank, Ap, xx}

\* Excerpt of the server's dataset, in its order.
fruits == <<apple, apricot>>

\* Excerpt of the suggestions offered.
popularFruits == <<apple>>

IsSpace(c) == c = " "

RECURSIVE TrimStart(_)
TrimStart(s) ==
  IF s # <<>> /\ IsSpace(Head(s)) THEN TrimStart(Tail(s)) ELSE s

RECURSIVE TrimEnd(_)
TrimEnd(s) ==
  IF s # <<>> /\ IsSpace(s[Len(s)]) THEN TrimEnd(SubSeq(s, 1, Len(s) - 1)) ELSE s

Trim(s) == TrimEnd(TrimStart(s))

\* JavaScript truthiness of a string.
Truthy(s) == s # <<>>

LowerChar(c) ==
  CASE c = "A" -> "a"
    [] c = "P" -> "p"
    [] c = "X" -> "x"
    [] OTHER -> c

ToLowerCase(s) == [i \in 1..Len(s) |-> LowerChar(s[i])]

Includes(f, q) ==
  \E i \in 0..(Len(f) - Len(q)) : SubSeq(f, i + 1, i + Len(q)) = q

RECURSIVE Filter(_, _)
Filter(seq, q) ==
  IF seq = <<>> THEN <<>>
  ELSE IF Includes(Head(seq), q) THEN <<Head(seq)>> \o Filter(Tail(seq), q)
       ELSE Filter(Tail(seq), q)

Unreserved(c) == c \notin {" ", "%"}

RECURSIVE EncodeURIComponent(_)
EncodeURIComponent(s) ==
  IF s = <<>> THEN <<>>
  ELSE (IF Unreserved(Head(s)) THEN <<Head(s)>>
        ELSE IF Head(s) = " " THEN <<"%", "2", "0">>
        ELSE <<"%", "2", "5">>) \o EncodeURIComponent(Tail(s))

RECURSIVE ParseQuery(_)
ParseQuery(s) ==
  IF s = <<>> THEN <<>>
  ELSE IF Head(s) = "%" /\ Len(s) >= 3 /\ s[2] = "2" /\ s[3] = "0"
       THEN <<" ">> \o ParseQuery(SubSeq(s, 4, Len(s)))
  ELSE IF Head(s) = "%" /\ Len(s) >= 3 /\ s[2] = "2" /\ s[3] = "5"
       THEN <<"%">> \o ParseQuery(SubSeq(s, 4, Len(s)))
  ELSE <<Head(s)>> \o ParseQuery(Tail(s))

-----------------------------------------------------------------------------
(* Mock server *)

\* The matches of a successful simulateSearch.
simulateSearch(term) == Filter(fruits, ToLowerCase(term))

\* The 200 body for the query string the client sent.
ServerResults(q) == simulateSearch(ParseQuery(q))

-----------------------------------------------------------------------------
(* Client constants and failures *)

MAX_RETRIES == 2
ToastThreshold == 3

\* error.error?.error of a failure that carries no structured payload.
NoPayload == ""

TimeoutErr == [timeout |-> TRUE, status |-> -1, payload |-> NoPayload]
HttpErr(st, msg) == [timeout |-> FALSE, status |-> st, payload |-> msg]

\* Failures the endpoint and the network produce.
Failures == {TimeoutErr, HttpErr(500, "Random backend failure")}

\* Failures of a request to any endpoint behind API_URL: no connection,
\* statuses outside 2xx with and without an {error: string} body.
HttpFailures ==
  {TimeoutErr,
   HttpErr(0, NoPayload),
   HttpErr(500, "Random backend failure"),
   HttpErr(502, "Bad gateway"),
   HttpErr(503, NoPayload),
   HttpErr(404, "Not found"),
   HttpErr(400, "Bad request"),
   HttpErr(400, NoPayload)}

\* Elapsed times the latency tap can observe.
Latencies == {300}

ErrorMessageFor(error) ==
  IF error.timeout THEN "Request timed out. Please try again."
  ELSE IF error.status = 0 THEN "Cannot connect to server. Is it running?"
  ELSE IF error.status = 500
       THEN "Server error. This might be the 15% random failure."
  ELSE IF error.status = 404 THEN "Search endpoint not found."
  ELSE IF error.payload # NoPayload THEN error.payload
  ELSE "An unexpected error occurred."

hasResults == Len(results) > 0

\* seq[i] of a JavaScript array: <<>> stands for undefined.
At(seq, i) == IF 0 <= i /\ i < Len(seq) THEN <<seq[i + 1]>> ELSE <<>>

\* Record of the handler that ran: its name, who emitted the value it
\* handled (or whether its pipeline is the current one), the attempt number,
\* the string it was about, and whether what it handled had replaced
\* something: a different pending value in the debounce window, or a
\* pipeline still in flight.  handleSearchError adds the error it was given.
OpOf(name, by, n, arg, replaced) ==
  [op |-> name, by |-> by, n |-> n, arg |-> arg, replaced |-> replaced,
   error |-> <<>>]

Op(name) == OpOf(name, "", 0, <<>>, FALSE)

-----------------------------------------------------------------------------
(* The search stream: debounceTime, distinctUntilChanged, tap, switchMap *)

\* A debounce that keeps the value that started the window.
DebounceNext_KeepFirst(pending, v, by) ==
  <<[value |-> IF pending = <<>> THEN v ELSE pending[1].value,
     by |-> by, last |-> v,
     replaced |-> pending # <<>> /\ (pending[1].replaced \/ pending[1].last # v)]>>

\* debounceTime on next: the pending value is replaced and the timer restarted.
\* `last` remembers the latest emission and `replaced` whether a pending
\* emission of another value was replaced since the timer last fired.
DebounceNext(pending, v, by) ==
  <<[value |-> v, by |-> by, last |-> v,
     replaced |-> pending # <<>> /\ (pending[1].replaced \/ pending[1].last # v)]>>

\* A stream without distinctUntilChanged.
DistinctUntilChanged_Always(prev, v) == TRUE

\* distinctUntilChanged: TRUE when v is passed on.
DistinctUntilChanged(prev, v) == prev = <<>> \/ prev[1] # v

\* mergeMap in place of switchMap: earlier inner subscriptions stay subscribed.
SwitchMap_Merge(ps, inner) ==
  {[p EXCEPT !.newest = FALSE] : p \in ps} \cup inner

\* switchMap: the inner subscriptions after projecting a new value; `inner`
\* is the set of asynchronous inner pipelines of the new value.  The previous
\* inner subscription is unsubscribed, which aborts its request and timers.
SwitchMap(ps, inner) == inner

\* An error that leaves the inner pipeline unhandled ends the subscription.
CatchError_Rethrow(sub) == FALSE

\* catchError inside the inner pipeline: the error is replaced by a value, so
\* the outer stream and its subscription go on.
CatchError(sub) == sub

\* debounceTime(due) on a source that emits at time 0 and completes at time
\* completeAt: the pending value is emitted when the timer expires or when
\* the source completes, whichever comes first.
DebounceTimeEmitsAt(due, completeAt) ==
  IF completeAt < due THEN completeAt ELSE due

\* The notifier of retry: of(null).pipe(debounceTime(1000 * retryCount)),
\* where of(null) emits and completes at once.  The time in ms after the
\* failure at which the request is resubscribed.
RetryDelay(retryCount) == DebounceTimeEmitsAt(1000 * retryCount, 0)

\* An inner pipeline: its query, the running attempt, the time in ms that
\* passed between the failure of the attempt before and the start of this
\* one, whether it is the latest projection of switchMap, and whether it was
\* subscribed while its predecessor was still in flight.
NewPipe(term, superseding) ==
  [term |-> term, attempt |-> 1, waited |-> 0, newest |-> TRUE,
   superseding |-> superseding]

\* handleSearchResponse: the new value of results.
ResponseResults(cur, respResults, term) ==
  IF Len(respResults) > 0 THEN respResults
  ELSE IF Truthy(Trim(term)) THEN <<>>
  ELSE cur

\* handleSearchResponse: the new value of hasError.
ResponseHasError(cur, respResults) ==
  IF Len(respResults) > 0 THEN FALSE ELSE cur

\* A response handler that leaves the loading flag as it was.
ResponseIsLoading_Keep(cur) == cur

\* handleSearchResponse: this.isLoading = false.
ResponseIsLoading(cur) == FALSE

\* searchSubject.next(v): reaches debounceTime while the stream is subscribed.
SubjectNext(v, by) ==
  debounce' = IF subscribed THEN DebounceNext(debounce, v, by) ELSE debounce

\* A focus handler that leaves the pending close timer running.
ClearTimeout_Skip(handle) == handle

\* clearTimeout(this.blurTimeout): the timer, if pending, never fires.
ClearTimeout(handle) == "idle"

\* nativeElement.focus(): dispatches the focus event, handled by onFocus,
\* when the element does not have the focus yet.
FocusElement ==
  /\ focused' = TRUE
  /\ IF focused
     THEN UNCHANGED <<blurTimeout, showDropdown>>
     ELSE /\ blurTimeout' = ClearTimeout(blurTimeout)
          /\ showDropdown' = TRUE

-----------------------------------------------------------------------------
(* Initial state *)

Init ==
  /\ searchTerm = <<>>
  /\ results = <<>>
  /\ selectedValue = <<>>
  /\ selectedIndex = -1
  /\ isLoading = FALSE
  /\ hasError = FALSE
  /\ hasSearched = FALSE
  /\ showDropdown = FALSE
  /\ showErrorToast = FALSE
  /\ errorMessage = ""
  /\ toastMessage = ""
  /\ errorCount = 0
  /\ requestCount = 0
  /\ latency = <<>>
  /\ debounce = <<>>
  /\ lastDistinct = <<>>
  /\ pipes = {}
  /\ blurTimeout = "idle"
  /\ toastTimers = 0
  /\ focused = FALSE
  /\ alive = TRUE
  /\ subscribed = TRUE
  /\ resultSelected = <<>>
  /\ lastOp = Op("init")

-----------------------------------------------------------------------------
(* Input, focus and blur *)

OnSearchInput(value) ==
  /\ alive /\ focused
  /\ searchTerm' = value
  /\ selectedIndex' = -1
  /\ hasError' = FALSE
  /\ errorMessage' = IF hasError THEN "" ELSE errorMessage
  /\ showDropdown' = IF Truthy(value) \/ ~hasSearched THEN TRUE ELSE showDropdown
  /\ SubjectNext(value, "input")
  /\ resultSelected' = <<>>
  /\ lastOp' = [Op("onSearchInput") EXCEPT !.arg = value]
  /\ UNCHANGED <<results, selectedValue, isLoading, hasSearched, showErrorToast,
                 toastMessage, errorCount, requestCount, latency, lastDistinct,
                 pipes, blurTimeout, toastTimers, focused, alive,
                 subscribed>>

OnFocus ==
  /\ alive /\ ~focused
  /\ FocusElement
  /\ resultSelected' = <<>>
  /\ lastOp' = [Op("onFocus") EXCEPT !.replaced = (blurTimeout = "armed")]
  /\ UNCHANGED <<searchTerm, results, selectedValue, selectedIndex, isLoading,
                 hasError, hasSearched, showErrorToast, errorMessage, toastMessage,
                 errorCount, requestCount, latency, debounce, lastDistinct, pipes,
                 toastTimers, alive,
                 subscribed>>

\* The blur event: onBlur arms the 200ms close timer.
BlurElement ==
  /\ focused' = FALSE
  /\ blurTimeout' = "armed"

OnBlur ==
  /\ alive /\ focused
  /\ BlurElement
  /\ resultSelected' = <<>>
  /\ lastOp' = Op("onBlur")
  /\ UNCHANGED <<searchTerm, results, selectedValue, selectedIndex, isLoading,
                 hasError, hasSearched, showDropdown, showErrorToast, errorMessage,
                 toastMessage, errorCount, requestCount, latency, debounce,
                 lastDistinct, pipes, toastTimers, alive,
                 subscribed>>

BlurTimerFire ==
  /\ blurTimeout = "armed"
  /\ blurTimeout' = "idle"
  /\ showDropdown' = FALSE
  /\ selectedIndex' = -1
  /\ resultSelected' = <<>>
  /\ lastOp' = Op("blurTimer")
  /\ UNCHANGED <<searchTerm, results, selectedValue, isLoading, hasError,
                 hasSearched, showErrorToast, errorMessage, toastMessage,
                 errorCount, requestCount, latency, debounce, lastDistinct, pipes,
                 toastTimers, focused, alive,
                 subscribed>>

-----------------------------------------------------------------------------
(* Selection *)

\* A commit that forgets to notify the embedding context.
SelectResult_NoEmit(result) ==
  /\ selectedValue' = <<result>>
  /\ searchTerm' = result
  /\ showDropdown' = FALSE
  /\ resultSelected' = <<>>

\* selectResult(result): the commit.
SelectResult(result) ==
  /\ selectedValue' = <<result>>
  /\ searchTerm' = result
  /\ showDropdown' = FALSE
  /\ resultSelected' = <<result>>

\* A click on one of the listed results.
SelectResultClick(result) ==
  /\ alive
  /\ \E i \in 1..Len(results) : results[i] = result
  /\ SelectResult(result)
  /\ lastOp' = [Op("selectResult") EXCEPT !.arg = result]
  /\ UNCHANGED <<results, selectedIndex, isLoading, hasError, hasSearched,
                 showErrorToast, errorMessage, toastMessage, errorCount,
                 requestCount, latency, debounce, lastDistinct, pipes,
                 blurTimeout, toastTimers, focused, alive,
                 subscribed>>

SelectSuggestion(fruit) ==
  /\ alive
  /\ searchTerm' = fruit
  /\ SubjectNext(fruit, "suggestion")
  /\ FocusElement
  /\ resultSelected' = <<>>
  /\ lastOp' = [Op("selectSuggestion") EXCEPT !.arg = fruit]
  /\ UNCHANGED <<results, selectedValue, selectedIndex, isLoading, hasError,
                 hasSearched, showErrorToast, errorMessage, toastMessage,
                 errorCount, requestCount, latency, lastDistinct, pipes,
                 toastTimers, alive,
                 subscribed>>

\* The body of clearSearch().
ClearSearchBody ==
  /\ searchTerm' = <<>>
  /\ results' = <<>>
  /\ selectedIndex' = -1
  /\ hasSearched' = FALSE
  /\ hasError' = FALSE
  /\ selectedValue' = <<>>
  /\ FocusElement

ClearSearch ==
  /\ alive
  /\ ClearSearchBody
  /\ resultSelected' = <<>>
  /\ lastOp' = Op("clearSearch")
  /\ UNCHANGED <<isLoading, showErrorToast, errorMessage, toastMessage,
                 errorCount, requestCount, latency, debounce, lastDistinct,
                 pipes, toastTimers, alive,
                 subscribed>>

RemoveSelection ==
  /\ alive
  /\ ClearSearchBody
  /\ resultSelected' = <<>>
  /\ lastOp' = Op("removeSelection")
  /\ UNCHANGED <<isLoading, showErrorToast, errorMessage, toastMessage,
                 errorCount, requestCount, latency, debounce, lastDistinct,
                 pipes, toastTimers, alive,
                 subscribed>>

\* retry(), offered with the error display: `by` records whether the query
\* it re-emits is the settled query whose pipeline failed.
Retry ==
  /\ alive
  /\ hasError
  /\ IF Truthy(Trim(searchTerm))
     THEN /\ hasError' = FALSE
          /\ errorMessage' = ""
          /\ SubjectNext(searchTerm,
                         IF hasError /\ lastDistinct = <<searchTerm>>
                            /\ debounce = <<>> /\ pipes = {}
                         THEN "retryFailed" ELSE "retry")
     ELSE UNCHANGED <<hasError, errorMessage, debounce>>
  /\ resultSelected' = <<>>
  /\ lastOp' = [Op("retry") EXCEPT !.arg = searchTerm]
  /\ UNCHANGED <<searchTerm, results, selectedValue, selectedIndex, isLoading,
                 hasSearched, showDropdown, showErrorToast, toastMessage,
                 errorCount, requestCount, latency, lastDistinct, pipes,
                 blurTimeout, toastTimers, focused, alive,
                 subscribed>>

-----------------------------------------------------------------------------
(* Keyboard *)

\* Navigation that stops at either end instead of wrapping.
NavigateResults_Clamp(index, len, direction) ==
  IF ~(len > 0) THEN index
  ELSE LET newIndex == index + direction IN
       IF newIndex < -1 THEN -1
       ELSE IF newIndex >= len THEN len - 1
       ELSE newIndex

\* navigateResults(direction): the new selectedIndex.
NavigateResults(index, len, direction) ==
  IF ~(len > 0) THEN index
  ELSE LET newIndex == index + direction IN
       IF newIndex < -1 THEN len - 1
       ELSE IF newIndex >= len THEN -1
       ELSE newIndex

\* case 'Enter': <<>> when nothing is committed, else <<the result committed>>.
EnterTarget(index, res) ==
  IF index >= 0 /\ At(res, index) # <<>> /\ Truthy(At(res, index)[1])
  THEN At(res, index)
  ELSE IF Len(res) = 1 THEN <<res[1]>>
  ELSE <<>>

KeyOpen(key) ==
  /\ alive /\ focused
  /\ ~showDropdown
  /\ key \in {"ArrowDown", "Enter"}
  /\ showDropdown' = TRUE
  /\ resultSelected' = <<>>
  /\ lastOp' = [Op("keyOpen") EXCEPT !.by = key]
  /\ UNCHANGED <<searchTerm, results, selectedValue, selectedIndex, isLoading,
                 hasError, hasSearched, showErrorToast, errorMessage,
                 toastMessage, errorCount, requestCount, latency, debounce,
                 lastDistinct, pipes, blurTimeout, toastTimers, focused, alive,
                 subscribed>>

KeyArrow(key) ==
  /\ alive /\ focused
  /\ \/ key = "ArrowDown" /\ showDropdown
     \/ key = "ArrowUp"
  /\ selectedIndex' = NavigateResults(selectedIndex, Len(results),
                                      IF key = "ArrowDown" THEN 1 ELSE -1)
  /\ resultSelected' = <<>>
  /\ lastOp' = [Op("keyArrow") EXCEPT !.by = key]
  /\ UNCHANGED <<searchTerm, results, selectedValue, isLoading, hasError,
                 hasSearched, showDropdown, showErrorToast, errorMessage,
                 toastMessage, errorCount, requestCount, latency, debounce,
                 lastDistinct, pipes, blurTimeout, toastTimers, focused, alive,
                 subscribed>>

KeyEnter ==
  /\ alive /\ focused
  /\ showDropdown
  /\ LET t == EnterTarget(selectedIndex, results) IN
       /\ IF t # <<>>
          THEN SelectResult(t[1])
          ELSE /\ resultSelected' = <<>>
               /\ UNCHANGED <<selectedValue, searchTerm, showDropdown>>
       /\ lastOp' = OpOf("keyEnter", "Enter", 0, IF t # <<>> THEN t[1] ELSE <<>>,
                         FALSE)
  /\ UNCHANGED <<results, selectedIndex, isLoading, hasError, hasSearched,
                 showErrorToast, errorMessage, toastMessage, errorCount,
                 requestCount, latency, debounce, lastDistinct, pipes,
                 blurTimeout, toastTimers, focused, alive,
                 subscribed>>

\* Escape closes, resets the cursor and blurs the input, which arms the timer.
KeyEscape ==
  /\ alive /\ focused
  /\ showDropdown' = FALSE
  /\ selectedIndex' = -1
  /\ BlurElement
  /\ resultSelected' = <<>>
  /\ lastOp' = [Op("keyEscape") EXCEPT !.by = "Escape"]
  /\ UNCHANGED <<searchTerm, results, selectedValue, isLoading, hasError,
                 hasSearched, showErrorToast, errorMessage, toastMessage,
                 errorCount, requestCount, latency, debounce, lastDistinct,
                 pipes, toastTimers, alive,
                 subscribed>>

KeyTab ==
  /\ alive /\ focused
  /\ showDropdown' = FALSE
  /\ resultSelected' = <<>>
  /\ lastOp' = [Op("keyTab") EXCEPT !.by = "Tab"]
  /\ UNCHANGED <<searchTerm, results, selectedValue, selectedIndex, isLoading,
                 hasError, hasSearched, showErrorToast, errorMessage,
                 toastMessage, errorCount, requestCount, latency, debounce,
                 lastDistinct, pipes, blurTimeout, toastTimers, focused, alive,
                 subscribed>>

-----------------------------------------------------------------------------
(* The debounce timer fires: distinctUntilChanged, tap, switchMap *)

\* `cap` bounds the number of requests a behaviour issues.
DebounceFireUpTo(cap) ==
  /\ subscribed
  /\ debounce # <<>>
  /\ LET d == debounce[1]
         term == d.value
         info(name) == OpOf(name, d.by, 0, term, d.replaced)
     IN
     /\ debounce' = <<>>
     /\ resultSelected' = <<>>
     /\ IF ~DistinctUntilChanged(lastDistinct, term)
        THEN \* suppressed: nothing downstream runs
             /\ lastOp' = info("settleDropped")
             /\ UNCHANGED <<results, isLoading, hasError, hasSearched,
                            requestCount, lastDistinct, pipes>>
        ELSE IF ~Truthy(Trim(term))
        THEN \* of({query, results: []}) is delivered synchronously
             /\ lastDistinct' = <<term>>
             /\ pipes' = SwitchMap(pipes, {})
             /\ isLoading' = ResponseIsLoading(isLoading)
             /\ hasSearched' = TRUE
             /\ results' = ResponseResults(results, <<>>, searchTerm)
             /\ hasError' = ResponseHasError(hasError, <<>>)
             /\ lastOp' = info("settleBlank")
             /\ UNCHANGED requestCount
        ELSE \* tap, then the HTTP request of the new inner pipeline
             /\ requestCount < cap
             /\ lastDistinct' = <<term>>
             /\ isLoading' = TRUE
             /\ hasError' = FALSE
             /\ requestCount' = requestCount + 1
             /\ pipes' = SwitchMap(pipes, {NewPipe(term, pipes # {})})
             /\ lastOp' = info("settleRequest")
             /\ UNCHANGED <<results, hasSearched>>
  /\ UNCHANGED <<searchTerm, selectedValue, selectedIndex, showDropdown,
                 showErrorToast, errorMessage, toastMessage, errorCount,
                 latency, blurTimeout, toastTimers, focused, alive,
                 subscribed>>

DebounceFire == DebounceFireUpTo(MaxRequests)

-----------------------------------------------------------------------------
(* Outcomes of the HTTP attempts *)

PipeOp(name, p) ==
  OpOf(name, IF p.newest THEN "current" ELSE "superseded", p.attempt, p.term,
       p.superseding)

\* A 200 response: latency tap, then handleSearchResponse.
HttpSuccess(p) ==
  /\ subscribed
  /\ p \in pipes
  /\ LET m == ServerResults(EncodeURIComponent(p.term)) IN
     /\ \E l \in Latencies : latency' = <<l>>
     /\ isLoading' = ResponseIsLoading(isLoading)
     /\ hasSearched' = TRUE
     /\ results' = ResponseResults(results, m, searchTerm)
     /\ hasError' = ResponseHasError(hasError, m)
  /\ pipes' = pipes \ {p}
  /\ resultSelected' = <<>>
  /\ lastOp' = PipeOp("response", p)
  /\ UNCHANGED <<searchTerm, selectedValue, selectedIndex, showDropdown,
                 showErrorToast, errorMessage, toastMessage, errorCount,
                 requestCount, debounce, lastDistinct, blurTimeout,
                 toastTimers, focused, alive,
                 subscribed>>

\* One resubscription too many.
ShouldRetry_Extra(attempt) == attempt <= MAX_RETRIES + 1

\* retry({count: MAX_RETRIES}): the failure of attempt number `attempt`
\* resubscribes while fewer than MAX_RETRIES retries have been made.
ShouldRetry(attempt) == attempt <= MAX_RETRIES

\* A failed attempt that retry() resubscribes: the delay notifier
\* of(null).pipe(debounceTime(..)) emits when its source completes.
HttpFailureRetried(p, error) ==
  /\ subscribed
  /\ p \in pipes
  /\ ShouldRetry(p.attempt)
  /\ pipes' = (pipes \ {p}) \cup
                {[p EXCEPT !.attempt = p.attempt + 1,
                           !.waited = RetryDelay(p.attempt)]}
  /\ resultSelected' = <<>>
  /\ lastOp' = PipeOp("attemptFailed", p)
  /\ UNCHANGED <<searchTerm, results, selectedValue, selectedIndex, isLoading,
                 hasError, hasSearched, showDropdown, showErrorToast,
                 errorMessage, toastMessage, errorCount, requestCount, latency,
                 debounce, lastDistinct, blurTimeout, toastTimers, focused, alive,
                 subscribed>>

\* A toast on every failure, whatever the count.
ShouldToast_Every(count) == count >= 1

\* handleSearchError: if (this.errorCount >= 3) showToast(..).
ShouldToast(count) == count >= ToastThreshold

\* The last attempt failed: catchError runs handleSearchError and replaces
\* the error by {query, results: []}, which handleSearchResponse receives.
HttpFailureFinal(p, error) ==
  /\ subscribed
  /\ p \in pipes
  /\ ~ShouldRetry(p.attempt)
  /\ isLoading' = FALSE
  /\ errorCount' = errorCount + 1
  /\ errorMessage' = ErrorMessageFor(error)
  /\ IF ShouldToast(errorCount + 1)
     THEN /\ toastMessage' = "Multiple errors detected. Check your connection."
          /\ showErrorToast' = TRUE
          /\ toastTimers' = toastTimers + 1
     ELSE UNCHANGED <<toastMessage, showErrorToast, toastTimers>>
  /\ hasSearched' = TRUE
  /\ results' = ResponseResults(<<>>, <<>>, searchTerm)
  /\ hasError' = ResponseHasError(TRUE, <<>>)
  /\ pipes' = pipes \ {p}
  /\ resultSelected' = <<>>
  /\ subscribed' = CatchError(subscribed)
  /\ lastOp' = [PipeOp("pipelineFailed", p) EXCEPT !.error = <<error>>]
  /\ UNCHANGED <<searchTerm, selectedValue, selectedIndex, showDropdown,
                 requestCount, latency, debounce, lastDistinct, blurTimeout,
                 focused, alive>>

-----------------------------------------------------------------------------
(* Toast and teardown *)

ToastTimerFire ==
  /\ toastTimers > 0
  /\ toastTimers' = toastTimers - 1
  /\ showErrorToast' = FALSE
  /\ resultSelected' = <<>>
  /\ lastOp' = Op("toastTimer")
  /\ UNCHANGED <<searchTerm, results, selectedValue, selectedIndex, isLoading,
                 hasError, hasSearched, showDropdown, errorMessage, toastMessage,
                 errorCount, requestCount, latency, debounce, lastDistinct,
                 pipes, blurTimeout, focused, alive,
                 subscribed>>

\* The dismiss control is part of the toast, so it exists while it shows.
DismissToast ==
  /\ alive
  /\ showErrorToast
  /\ showErrorToast' = FALSE
  /\ resultSelected' = <<>>
  /\ lastOp' = Op("dismissToast")
  /\ UNCHANGED <<searchTerm, results, selectedValue, selectedIndex, isLoading,
                 hasError, hasSearched, showDropdown, errorMessage, toastMessage,
                 errorCount, requestCount, latency, debounce, lastDistinct,
                 pipes, blurTimeout, toastTimers, focused, alive,
                 subscribed>>

\* ngOnDestroy: the stream subscription ends (debounce timer and inner
\* pipeline with it) and the blur timer is cleared.
NgOnDestroy ==
  /\ alive
  /\ alive' = FALSE
  /\ subscribed' = FALSE
  /\ debounce' = <<>>
  /\ pipes' = {}
  /\ blurTimeout' = ClearTimeout(blurTimeout)
  /\ resultSelected' = <<>>
  /\ lastOp' = Op("ngOnDestroy")
  /\ UNCHANGED <<searchTerm, results, selectedValue, selectedIndex, isLoading,
                 hasError, hasSearched, showDropdown, showErrorToast,
                 errorMessage, toastMessage, errorCount, requestCount, latency,
                 lastDistinct, toastTimers, focused>>

-----------------------------------------------------------------------------

Next ==
  \/ \E value \in Inputs : OnSearchInput(value)
  \/ OnFocus
  \/ OnBlur
  \/ BlurTimerFire
  \/ \E i \in 1..Len(results) : SelectResultClick(results[i])
  \/ \E i \in 1..Len(popularFruits) : SelectSuggestion(popularFruits[i])
  \/ ClearSearch
  \/ RemoveSelection
  \/ Retry
  \/ \E key \in {"ArrowDown", "Enter"} : KeyOpen(key)
  \/ \E key \in {"ArrowDown", "ArrowUp"} : KeyArrow(key)
  \/ KeyEnter
  \/ KeyEscape
  \/ KeyTab
  \/ DebounceFire
  \/ \E p \in pipes : HttpSuccess(p)
  \/ \E p \in pipes, error \in Failures : HttpFailureRetried(p, error)
  \/ \E p \in pipes, error \in Failures : HttpFailureFinal(p, error)
  \/ ToastTimerFire
  \/ DismissToast
  \/ NgOnDestroy

Spec == Init /\ [][Next]_vars

\* Typing and failing requests only, far enough for the toast to be raised
\* twice.
NextToast ==
  \/ OnFocus
  \/ \E value \in {Ap, xx} : OnSearchInput(value)
  \/ DebounceFireUpTo(MaxToastRequests)
  \/ \E p \in pipes, error \in Failures : HttpFailureRetried(p, error)
  \/ \E p \in pipes, error \in Failures : HttpFailureFinal(p, error)
  \/ ToastTimerFire
  \/ DismissToast

SpecToast == Init /\ [][NextToast]_vars

\* Typing and requests against an endpoint that fails in every way.
NextErrors ==
  \/ OnFocus
  \/ \E value \in {Ap, xx} : OnSearchInput(value)
  \/ DebounceFire
  \/ \E p \in pipes : HttpSuccess(p)
  \/ \E p \in pipes, error \in HttpFailures : HttpFailureRetried(p, error)
  \/ \E p \in pipes, error \in HttpFailures : HttpFailureFinal(p, error)

SpecErrors == Init /\ [][NextErrors]_vars

\* An attempt in flight ends: the response arrives, or the request fails, at
\* the latest when timeout(REQUEST_TIMEOUT) expires.
AttemptEnds ==
  \E p \in pipes :
    \/ \E error \in Failures : HttpFailureRetried(p, error)
    \/ \E error \in Failures : HttpFailureFinal(p, error)
    \/ HttpSuccess(p)

\* The handlers that start, supersede, end or abandon a request.
NextLive ==
  \/ OnFocus
  \/ \E value \in Inputs : OnSearchInput(value)
  \/ \E i \in 1..Len(popularFruits) : SelectSuggestion(popularFruits[i])
  \/ ClearSearch
  \/ Retry
  \/ DebounceFire
  \/ AttemptEnds
  \/ NgOnDestroy

\* Timers fire: every attempt in flight ends.
SpecLive == Init /\ [][NextLive]_vars /\ WF_vars(AttemptEnds)

-----------------------------------------------------------------------------
(* Properties *)

Settles == {"settleDropped", "settleBlank", "settleRequest"}
PipeOps == {"response", "attemptFailed", "pipelineFailed"}
Emitters == {"onSearchInput", "selectSuggestion", "retry"}

\* C1: Supersession.  Every response, failed attempt and final failure that
\* is handled belongs to the pipeline of the most recently dispatched query:
\* at most one inner pipeline is subscribed, it is the newest one, and no
\* outcome of a superseded pipeline is ever applied.
C1_Supersession ==
  /\ Cardinality(pipes) <= 1
  /\ \A p \in pipes : p.newest
  /\ lastOp.op \in PipeOps => lastOp.by = "current"

\* A pipeline that superseded one still in flight has delivered its response.
C1_Witness ==
  /\ lastOp.op = "response"
  /\ lastOp.by = "current"
  /\ lastOp.replaced

\* C2: Manual retry.  When the value emitted by retry() after the settled
\* query has ultimately failed settles, a new request for that query starts.
C2_RetryReissues ==
  (lastOp.op \in Settles /\ lastOp.by = "retryFailed") =>
    /\ lastOp.op = "settleRequest"
    /\ \E p \in pipes : p.term = lastOp.arg /\ p.attempt = 1

\* C3: Cursor invariant.  -1 <= selectedIndex < results.length in every state.
C3_CursorInRange ==
  /\ -1 <= selectedIndex
  /\ selectedIndex < Len(results)

\* C4: Clear query.  Once a blank value has settled and been processed, no
\* request is in flight for it, results is empty and hasError is false.
C4_ClearQuery ==
  lastOp.op = "settleBlank" =>
    /\ pipes = {}
    /\ results = <<>>
    /\ ~hasError

\* C5: Debounce.  Emitting a value starts no request; when the window closes
\* at most one pipeline starts, and only for the last value emitted in it.
C5_Debounce ==
  [][/\ lastOp'.op \in Emitters =>
          pipes' = pipes /\ requestCount' = requestCount
     /\ lastOp'.op \in Settles =>
          /\ debounce # <<>>
          /\ debounce' = <<>>
          /\ requestCount' <= requestCount + 1
          /\ Cardinality({p \in pipes' : p.newest}) <= 1
          /\ \A p \in pipes' : p.newest /\ p \notin pipes =>
               p.term = debounce[1].last
          /\ requestCount' > requestCount =>
               \E p \in pipes' : /\ p.newest
                                 /\ p.attempt = 1
                                 /\ p.term = debounce[1].last]_vars

\* A window in which a different value was replaced has closed with a request.
C5_Witness ==
  /\ lastOp.op = "settleRequest"
  /\ lastOp.replaced

\* C6: Dedup.  A settle of the value that settled before it issues no request
\* and leaves requestCount, isLoading and results as they were.
C6_Dedup ==
  [][(/\ lastOp'.op \in Settles
      /\ debounce # <<>>
      /\ lastDistinct # <<>>
      /\ debounce[1].last = lastDistinct[1]) =>
       /\ lastOp'.op = "settleDropped"
       /\ pipes' = pipes
       /\ requestCount' = requestCount
       /\ isLoading' = isLoading
       /\ results' = results]_vars

\* A repeated value emitted by a suggestion click was dropped while the
\* request of the same query was in flight.
C6_Witness ==
  /\ lastOp.op = "settleDropped"
  /\ lastOp.by = "suggestion"
  /\ isLoading
  /\ pipes # {}

\* C7: Commit.  A commit of r sets selectedValue and searchTerm to r, closes
\* the dropdown and emits exactly the one event r; nothing else emits.
C7_Commit ==
  [][/\ (lastOp'.op \in {"selectResult", "keyEnter"} /\ lastOp'.arg # <<>>) =>
          /\ selectedValue' = <<lastOp'.arg>>
          /\ searchTerm' = lastOp'.arg
          /\ ~showDropdown'
          /\ resultSelected' = <<lastOp'.arg>>
     /\ resultSelected' # <<>> =>
          /\ lastOp'.op \in {"selectResult", "keyEnter"}
          /\ lastOp'.arg # <<>>
     /\ lastOp'.op = "selectResult" => lastOp'.arg # <<>>]_vars

\* Enter has committed a result.
C7_Witness ==
  /\ lastOp.op = "keyEnter"
  /\ resultSelected # <<>>
  /\ selectedValue = resultSelected

\* C8: Enter on an open dropdown.  With selectedIndex >= 0 it commits exactly
\* results[selectedIndex] (and never results[0] by the single-result rule);
\* with selectedIndex = -1 and one result it commits that result; otherwise
\* it commits nothing.
C8_EnterCommits ==
  [][(lastOp'.op = "keyEnter" /\ showDropdown) =>
       resultSelected' =
         IF selectedIndex >= 0 THEN At(results, selectedIndex)
         ELSE IF Len(results) = 1 THEN <<results[1]>>
         ELSE <<>>]_vars

\* C9: Navigation step on an open dropdown.
C9_NavigationStep ==
  [][(lastOp'.op = "keyArrow" /\ showDropdown) =>
       LET n == Len(results)
           c == selectedIndex
           down == lastOp'.by = "ArrowDown"
           up == lastOp'.by = "ArrowUp"
       IN
       /\ results' = results
       /\ searchTerm' = searchTerm
       /\ selectedValue' = selectedValue
       /\ n = 0 => selectedIndex' = c
       /\ (n > 0 /\ down /\ -1 <= c /\ c < n - 1) => selectedIndex' = c + 1
       /\ (n > 0 /\ down /\ c = n - 1) => selectedIndex' = -1
       /\ (n > 0 /\ up /\ 0 <= c /\ c <= n - 1) => selectedIndex' = c - 1
       /\ (n > 0 /\ up /\ c = -1) => selectedIndex' = n - 1]_vars

\* ArrowUp has put the cursor on the last of two results, which only the
\* wrap from -1 does.
C9_Witness ==
  /\ lastOp.op = "keyArrow"
  /\ lastOp.by = "ArrowUp"
  /\ showDropdown
  /\ Len(results) = 2
  /\ selectedIndex = 1

\* C10: Ultimate success.  Right after the current pipeline received its
\* matches m: results = m, hasError = false and isLoading = false.
C10_SuccessApplied ==
  (lastOp.op = "response" /\ lastOp.by = "current") =>
    /\ results = ServerResults(EncodeURIComponent(lastOp.arg))
    /\ ~hasError
    /\ ~isLoading

\* C11: Ultimate failure is absorbed.  Right after the last attempt of the
\* current pipeline failed, hasError is true with a non-empty message,
\* results is empty and isLoading is false; and after any number of failures
\* the stream is still subscribed until teardown, so a distinct non-blank
\* value that settles within the request budget still starts a pipeline.
C11_FailureAbsorbed ==
  /\ lastOp.op = "pipelineFailed" =>
       /\ hasError
       /\ errorMessage # ""
       /\ results = <<>>
       /\ ~isLoading
       /\ pipes = {}
  /\ alive => subscribed
  /\ (/\ errorCount > 0
      /\ alive
      /\ debounce # <<>>
      /\ DistinctUntilChanged(lastDistinct, debounce[1].value)
      /\ Truthy(Trim(debounce[1].value))
      /\ requestCount < MaxRequests) => ENABLED DebounceFire

\* After a failed pipeline, the response of a later query has been applied.
C11_Witness ==
  /\ lastOp.op = "response"
  /\ lastOp.by = "current"
  /\ errorCount > 0
  /\ results # <<>>
  /\ ~hasError


\* C12: Error counter and toast threshold.  errorCount never decreases and
\* no operation resets it; it changes only when a pipeline has ultimately
\* failed, and then by exactly one; a step sets showErrorToast to true only
\* if it is such a failure and leaves errorCount >= 3, and every failure
\* that leaves errorCount >= 3 sets it.
C12_ErrorCounter ==
  [][/\ errorCount' >= errorCount
     /\ lastOp'.op = "pipelineFailed" => errorCount' = errorCount + 1
     /\ errorCount' # errorCount => lastOp'.op = "pipelineFailed"
     /\ (~showErrorToast /\ showErrorToast') =>
          (lastOp'.op = "pipelineFailed" /\ errorCount' >= ToastThreshold)
     /\ (lastOp'.op = "pipelineFailed" /\ errorCount' >= ToastThreshold) =>
          showErrorToast'
     /\ (lastOp'.op = "pipelineFailed" /\ errorCount' < ToastThreshold) =>
          showErrorToast' = showErrorToast]_vars

\* The third ultimate failure has raised the toast.
C12_Witness ==
  /\ lastOp.op = "pipelineFailed"
  /\ errorCount = ToastThreshold
  /\ showErrorToast
  /\ toastTimers = 1


\* C13: Toast lifetime.  A toast stays visible until its own 5000ms timer
\* fires or dismissToast is called: the timers all run 5000ms, so they fire
\* in the order they were set, and a timer that hides a visible toast is the
\* one set by the latest trigger (none is left pending); dismissToast hides
\* the toast at once; nothing else hides it.
C13_ToastLifetime ==
  [][/\ (lastOp'.op = "toastTimer" /\ showErrorToast) => toastTimers' = 0
     /\ lastOp'.op = "dismissToast" => ~showErrorToast'
     /\ (showErrorToast /\ ~showErrorToast') =>
          lastOp'.op \in {"toastTimer", "dismissToast"}]_vars


\* C14: Retry bound.  A pipeline makes at most MAX_RETRIES + 1 attempts; an
\* attempt after the first starts only in the step in which the attempt
\* before it failed; handleSearchError runs only on the failure of attempt
\* MAX_RETRIES + 1, at most once per settled query; requestCount grows by
\* one per settled non-blank query and by nothing per attempt.
C14_RetryBound ==
  /\ [](/\ \A p \in pipes : p.attempt \in 1..(MAX_RETRIES + 1)
        /\ lastOp.op \in PipeOps => lastOp.n \in 1..(MAX_RETRIES + 1)
        /\ lastOp.op = "pipelineFailed" => lastOp.n = MAX_RETRIES + 1
        /\ errorCount + Cardinality(pipes) <= requestCount)
  /\ [][/\ \A q \in pipes' \ pipes :
             q.attempt > 1 => /\ lastOp'.op = "attemptFailed"
                              /\ lastOp'.n = q.attempt - 1
        /\ lastOp'.op = "attemptFailed" =>
             UNCHANGED <<requestCount, errorCount, hasError, errorMessage,
                         results, isLoading>>
        /\ lastOp'.op = "settleRequest" => requestCount' = requestCount + 1
        /\ requestCount' # requestCount => lastOp'.op = "settleRequest"
        /\ errorCount' # errorCount => lastOp'.op = "pipelineFailed"]_vars

\* The third attempt of the first query failed and was handled once.
C14_Witness ==
  /\ lastOp.op = "pipelineFailed"
  /\ lastOp.n = MAX_RETRIES + 1
  /\ errorCount = 1
  /\ requestCount = 1
  /\ hasError


\* C15: Retry backoff.  The attempt that follows the n-th failed attempt of
\* a pipeline starts no earlier than 1000ms * n after that failure.
C15_RetryBackoff ==
  \A p \in pipes : p.attempt > 1 => p.waited >= 1000 * (p.attempt - 1)


\* C16: Error classification.  The message of a failure is chosen by the
\* first matching cause in the order: timeout, status 0, any 5xx status,
\* 404, a payload with an error field (used verbatim), anything else.
C16_Classification ==
  lastOp.op = "pipelineFailed" =>
    LET e == lastOp.error[1] IN
    errorMessage =
      IF e.timeout THEN "Request timed out. Please try again."
      ELSE IF e.status = 0 THEN "Cannot connect to server. Is it running?"
      ELSE IF e.status \in 500..599
           THEN "Server error. This might be the 15% random failure."
      ELSE IF e.status = 404 THEN "Search endpoint not found."
      ELSE IF e.payload # NoPayload THEN e.payload
      ELSE "An unexpected error occurred."


\* C17: Opening from closed.  ArrowDown or Enter pressed while the dropdown
\* is closed only opens it, and the state that results is open-unselected:
\* showDropdown = true and selectedIndex = -1, nothing navigated, nothing
\* committed.
C17_OpenUnselected ==
  [][lastOp'.op = "keyOpen" =>
       /\ ~showDropdown
       /\ showDropdown'
       /\ selectedIndex' = -1
       /\ resultSelected' = <<>>
       /\ UNCHANGED <<selectedValue, searchTerm, results>>]_vars


\* ArrowDown has reopened the dropdown that a commit had closed: the cursor
\* is still on the committed result.
C17_ReopenedSelected ==
  /\ lastOp.op = "keyOpen"
  /\ showDropdown
  /\ selectedIndex >= 0
  /\ selectedValue = At(results, selectedIndex)


\* C18: Blur grace.  onBlur (also the one Escape causes) arms the close
\* timer; when it fires the dropdown closes and the cursor becomes -1; a
\* focus event (also one caused by clearSearch or selectSuggestion) cancels
\* it, so no close timer is pending while the input has the focus, and none
\* fires then.
C18_BlurGrace ==
  /\ [](/\ blurTimeout = "armed" => ~focused
        /\ lastOp.op \in {"onBlur", "keyEscape"} => blurTimeout = "armed"
        /\ (lastOp.op \in {"onFocus", "clearSearch", "removeSelection",
                           "selectSuggestion"} /\ alive) =>
             (focused /\ blurTimeout = "idle"))
  /\ [][lastOp'.op = "blurTimer" =>
          /\ blurTimeout = "armed"
          /\ ~focused
          /\ ~showDropdown'
          /\ selectedIndex' = -1
          /\ blurTimeout' = "idle"]_vars

\* Focus came back within the grace delay: the pending close was cancelled
\* and the dropdown is open.
C18_Witness ==
  /\ lastOp.op = "onFocus"
  /\ lastOp.replaced
  /\ blurTimeout = "idle"
  /\ focused
  /\ showDropdown
  /\ ~ENABLED BlurTimerFire


\* C19: Clear is stable.  What the stream delivers right after clearSearch()
\* or removeSelection(), before the user has entered anything new (the
\* settling of a value that was pending in the debounce window, or the
\* response or failure of a request that was in flight), leaves results
\* empty, hasSearched false and hasError false.
C19_ClearStable ==
  [][(/\ lastOp.op \in {"clearSearch", "removeSelection"}
      /\ lastOp'.op \in Settles \cup PipeOps) =>
       /\ results' = <<>>
       /\ ~hasSearched'
       /\ ~hasError']_vars


====
